---- MODULE Spec2Model ----
(***************************************************************************)
(* Model of somfy-urts-poly.py: one SomfyShade node (position estimate,    *)
(* travel time, command timer) and the Controller's serial transport.      *)
(*                                                                         *)
(* Time is kept in hundredths of a second.  travelTime is a whole number   *)
(* of seconds, so travelTime * |positionSP - position| / 100. seconds is   *)
(* exactly travelTime * |positionSP - position| hundredths, and            *)
(* _timeDifference / travelTime * 100. is elapsed \div travelTime before   *)
(* int() truncates it.  `elapsed` is time.time() - self.lastCmdTime: the   *)
(* assignment self.lastCmdTime = time.time() sets it to 0 and the passing  *)
(* of time raises it.  Each Timer keeps the time left until it expires.    *)
(*                                                                         *)
(* Every method is a sequence of labelled steps.  A step is an operator    *)
(* from the shared state (a record w or s) and the running thread's frame  *)
(* (a record f or g) to the set of states and frames it can lead to.       *)
(* Spec runs each handler from its call to its return in one action, the   *)
(* handlers one at a time; SpecRace takes the same steps one by one and    *)
(* lets the command thread and a Timer's thread interleave; SpecLive      *)
(* follows one setShadePosition call, with fairness, to its end;           *)
(* SpecSerial takes the Controller's steps alone; SpecConn lets two        *)
(* threads take them at the same time.                                     *)
(***************************************************************************)
EXTENDS Integers, Sequences, FiniteSets, TLC

\* ---------------------------------------------------------------- bounds
\* Greatest time since the last motor command that the clock is followed to.
MaxElapsed == 230
\* Timers that wait or run while self.timer refers to another Timer.
MaxTimers == 3
\* Opens of the port, in one call of connectSerial, that return a handle
\* which is not open.
MaxOpens == 3
\* Open handles of the port that self._ser no longer refers to.
MaxStrays == 1

\* Travel times (seconds) the configuration or SET_TRAVEL_TIME may supply.
TravelTimes == {0, 2}
\* Values received with SET_TRAVEL_TIME.
TimeValues == TravelTimes \cup {-1, 61}
\* Values received with DON (a DON without a value is the action upDON).
OnValues == {-10, 50, 110}
\* How far the clock moves in one step, besides moving to a Timer's expiry.
TickSteps == {100, 199}

Threads == {"cmd", "tmr"}

\* The node address 01_01_01: serial port, URTSii address, channel.
Address == <<"01", "01", "01">>
\* The address of another shade of the same Controller: 01_01_02.
PeerAddress == <<"01", "01", "02">>

VARIABLES
    position,    \* SomfyShade.position: -1 or the estimate
    travelTime,  \* SomfyShade.travelTime, seconds
    lastCmd,     \* SomfyShade.lastCmd: "", "U", "D"
    elapsed,     \* time.time() - SomfyShade.lastCmdTime, hundredths
    timer,       \* SomfyShade.timer: the Timer object it refers to
    others,      \* the other Timer objects whose threads have not ended
    ser,         \* Controller._ser: "none", "open", "closed"
    gv1,         \* Controller driver GV1: serial port connected
    serialPort,  \* Controller.serialPort
    loc,         \* each thread's frame in a SomfyShade handler
    sloc,        \* the frame of a direct call of the Controller
    goal,        \* SpecLive: the one setShadePosition call that is followed
    peer,        \* SpecConn: the frame of another thread's call of the Controller
    strays       \* open handles of the port that self._ser does not refer to

vars == <<position, travelTime, lastCmd, elapsed, timer, others, ser, gv1,
          serialPort, loc, sloc, goal, peer, strays>>
shadeVars == <<position, travelTime, lastCmd, elapsed, timer, others>>
serialVars == <<ser, gv1, serialPort>>

\* ------------------------------------------------------------ arithmetic
Abs(x) == IF x < 0 THEN -x ELSE x
Min(a, b) == IF a < b THEN a ELSE b
Max(a, b) == IF a > b THEN a ELSE b

\* int(n / d) for d > 0: Python's int() truncates toward zero.
IntOf(n, d) == IF n >= 0 THEN n \div d ELSE -((-n) \div d)

Bool(b) == IF b THEN "True" ELSE "False"

\* ==================================================== Controller: serial
\* The Controller's state as a record, and a frame of a call into it.
Serial == [ser |-> ser, gv1 |-> gv1, serialPort |-> serialPort]

SetSerial(s) ==
    /\ ser' = s.ser
    /\ gv1' = s.gv1
    /\ serialPort' = s.serialPort

IdleSerialFrame ==
    [pc |-> "idle", op |-> "none", command |-> <<>>, tries |-> 0, ctries |-> 0,
     attempts |-> 0, opens |-> 0, written |-> <<>>, cres |-> FALSE,
     dres |-> FALSE, connRet |-> "ret", discRet |-> "ret", ret |-> "none"]

\* _sendURTSCmd(command)
CallSend(command) ==
    [IdleSerialFrame EXCEPT !.pc = "send", !.op = "_sendURTSCmd",
                            !.command = command]
\* connectSerial() called by longPoll, start or the CONNECT command
CallConnect ==
    [IdleSerialFrame EXCEPT !.pc = "connect", !.op = "connectSerial",
                            !.connRet = "connect_return"]
\* disconnectSerial() called by delete or the DISCONNECT command
CallDisconnect ==
    [IdleSerialFrame EXCEPT !.pc = "disconnect", !.op = "disconnectSerial",
                            !.discRet = "disconnect_return"]

\* Controller.command: the string sent for a node address and a command,
\* as the sequence of its parts.
Frame(address, command) == <<address[2], address[3], command, "\r">>

\* _sendURTSCmd: if str(command) == "": return False; _tries = 0
sendURTSCmd(s, g) ==
    IF g.command = <<>>
    THEN {[s |-> s, g |-> [g EXCEPT !.ret = "False", !.pc = "ret"]]}
    ELSE {[s |-> s, g |-> [g EXCEPT !.tries = 0, !.pc = "send_loop"]]}

\* A variant of _sendURTSCmd's loop with one more round.
sendURTSCmd_loop_more(s, g) ==
    IF g.tries <= 3
    THEN {[s |-> s, g |-> [g EXCEPT !.connRet = "send_connected",
                                    !.attempts = @ + 1, !.pc = "connect"]]}
    ELSE {[s |-> s, g |-> [g EXCEPT !.discRet = "send_failed",
                                    !.pc = "disconnect"]]}

\* _sendURTSCmd: while _tries <= 2: connectSerial(); after it disconnectSerial()
sendURTSCmd_loop(s, g) ==
    IF g.tries <= 2
    THEN {[s |-> s, g |-> [g EXCEPT !.connRet = "send_connected",
                                    !.attempts = @ + 1, !.pc = "connect"]]}
    ELSE {[s |-> s, g |-> [g EXCEPT !.discRet = "send_failed",
                                    !.pc = "disconnect"]]}

\* connectSerial: already connected, or _tries = 0
\* (opens counts this call's opens of the port)
connectSerial(s, g) ==
    IF s.ser = "open"
    THEN {[s |-> [s EXCEPT !.gv1 = 1],
           g |-> [g EXCEPT !.opens = 0, !.cres = TRUE, !.pc = g.connRet]]}
    ELSE {[s |-> s, g |-> [g EXCEPT !.opens = 0, !.ctries = 0,
                                    !.pc = "connect_loop"]]}

\* A variant of connectSerial's loop that leaves GV1 alone when the open
\* has returned an open handle.
connectSerial_loop_silent(s, g) ==
    IF g.ctries <= 1
    THEN {[s |-> [s EXCEPT !.ser = "open"],
           g |-> [g EXCEPT !.opens = @ + 1, !.cres = TRUE, !.pc = g.connRet]],
          [s |-> s,
           g |-> [g EXCEPT !.opens = @ + 1, !.ctries = @ + 1]]}
         \cup (IF g.opens < MaxOpens
               THEN {[s |-> [s EXCEPT !.ser = "closed", !.gv1 = 0],
                      g |-> [g EXCEPT !.opens = @ + 1]]}
               ELSE {})
    ELSE {[s |-> s, g |-> [g EXCEPT !.discRet = "connect_failed",
                                    !.pc = "disconnect"]]}

\* connectSerial: while _tries <= 1: one open of the port, which returns an
\* open handle (GV1 = 1, return True), returns a handle that is not open
\* (GV1 = 0, and round again), or raises (_tries += 1)
connectSerial_loop(s, g) ==
    IF g.ctries <= 1
    THEN {[s |-> [s EXCEPT !.ser = "open", !.gv1 = 1],
           g |-> [g EXCEPT !.opens = @ + 1, !.cres = TRUE, !.pc = g.connRet]],
          [s |-> s,
           g |-> [g EXCEPT !.opens = @ + 1, !.ctries = @ + 1]]}
         \cup (IF g.opens < MaxOpens
               THEN {[s |-> [s EXCEPT !.ser = "closed", !.gv1 = 0],
                      g |-> [g EXCEPT !.opens = @ + 1]]}
               ELSE {})
    ELSE {[s |-> s, g |-> [g EXCEPT !.discRet = "connect_failed",
                                    !.pc = "disconnect"]]}

\* connectSerial: return False, after disconnectSerial
connectSerial_failed(s, g) ==
    {[s |-> s, g |-> [g EXCEPT !.cres = FALSE, !.pc = g.connRet]]}

\* connectSerial returns to longPoll, start or the CONNECT command
connectSerial_return(s, g) ==
    {[s |-> s, g |-> [g EXCEPT !.ret = Bool(g.cres), !.pc = "ret"]]}

\* A variant of disconnectSerial that returns True when there is no _ser.
disconnectSerial_lenient(s, g) ==
    LET down == [s EXCEPT !.gv1 = 0] IN
    IF s.serialPort = "None"
    THEN {[s |-> down, g |-> [g EXCEPT !.dres = FALSE, !.pc = g.discRet]]}
    ELSE IF s.ser # "none"
    THEN {[s |-> [down EXCEPT !.ser = "closed"],
           g |-> [g EXCEPT !.dres = TRUE, !.pc = g.discRet]]}
         \cup (IF s.ser = "open"
               THEN {[s |-> down,
                      g |-> [g EXCEPT !.dres = FALSE, !.pc = g.discRet]]}
               ELSE {})
    ELSE {[s |-> down, g |-> [g EXCEPT !.dres = TRUE, !.pc = g.discRet]]}

\* disconnectSerial: GV1 = 0; no port: False; self._ser.close() and True, or
\* False when close raises (an open port then stays as it is); no _ser: False
disconnectSerial(s, g) ==
    LET down == [s EXCEPT !.gv1 = 0] IN
    IF s.serialPort = "None"
    THEN {[s |-> down, g |-> [g EXCEPT !.dres = FALSE, !.pc = g.discRet]]}
    ELSE IF s.ser # "none"
    THEN {[s |-> [down EXCEPT !.ser = "closed"],
           g |-> [g EXCEPT !.dres = TRUE, !.pc = g.discRet]]}
         \cup (IF s.ser = "open"
               THEN {[s |-> down,
                      g |-> [g EXCEPT !.dres = FALSE, !.pc = g.discRet]]}
               ELSE {})
    ELSE {[s |-> down, g |-> [g EXCEPT !.dres = FALSE, !.pc = g.discRet]]}

\* disconnectSerial returns to delete or the DISCONNECT command
disconnectSerial_return(s, g) ==
    {[s |-> s, g |-> [g EXCEPT !.ret = Bool(g.dres), !.pc = "ret"]]}

\* _sendURTSCmd: if self.connectSerial(): ... else: _tries += 1
sendURTSCmd_connected(s, g) ==
    IF g.cres
    THEN {[s |-> s, g |-> [g EXCEPT !.pc = "send_write"]]}
    ELSE {[s |-> s, g |-> [g EXCEPT !.tries = @ + 1, !.pc = "send_loop"]]}

\* _sendURTSCmd: self._ser.write(command.encode()); return True, or the
\* write raises: _tries += 1
sendURTSCmd_write(s, g) ==
    (IF s.ser = "open"
     THEN {[s |-> s, g |-> [g EXCEPT !.written = Append(@, g.command),
                                     !.ret = "True", !.pc = "ret"]]}
     ELSE {})
    \cup {[s |-> s, g |-> [g EXCEPT !.tries = @ + 1, !.pc = "send_loop"]]}

\* _sendURTSCmd: return False, after disconnectSerial
sendURTSCmd_failed(s, g) ==
    {[s |-> s, g |-> [g EXCEPT !.ret = "False", !.pc = "ret"]]}

\* One step of a call into the Controller.
SerialStep(s, g) ==
    CASE g.pc = "send" -> sendURTSCmd(s, g)
      [] g.pc = "send_loop" -> sendURTSCmd_loop(s, g)
      [] g.pc = "connect" -> connectSerial(s, g)
      [] g.pc = "connect_loop" -> connectSerial_loop(s, g)
      [] g.pc = "connect_failed" -> connectSerial_failed(s, g)
      [] g.pc = "connect_return" -> connectSerial_return(s, g)
      [] g.pc = "disconnect" -> disconnectSerial(s, g)
      [] g.pc = "disconnect_return" -> disconnectSerial_return(s, g)
      [] g.pc = "send_connected" -> sendURTSCmd_connected(s, g)
      [] g.pc = "send_write" -> sendURTSCmd_write(s, g)
      [] g.pc = "send_failed" -> sendURTSCmd_failed(s, g)
      [] OTHER -> {}

\* Every state and frame a call can pass through, and those it returns in.
RECURSIVE SerialReach(_)
SerialReach(seen) ==
    LET more == seen \cup UNION {SerialStep(n.s, n.g) : n \in seen} IN
    IF more = seen THEN seen ELSE SerialReach(more)

SerialRuns(s, g) == {n \in SerialReach({[s |-> s, g |-> g]}) : n.g.pc = "ret"}

\* Controller.command(address, command), for each state of the Controller:
\* the states it can return in, with its result and what it wrote
\* (a table, computed once).
CommandRuns ==
    [x \in [ser : {"none", "open", "closed"}, gv1 : {0, 1},
            serialPort : {"/dev/ttyUSB0"}] \X {"U", "D", "S"} |->
        {[s |-> n.s, g |-> [ret |-> n.g.ret, written |-> n.g.written]] :
           n \in SerialRuns(x[1], CallSend(Frame(Address, x[2])))}] @@ <<>>

\* ========================================================== Timer objects
\* threading.Timer: start() runs a thread that waits `interval` and then,
\* unless `finished` is set, calls the function and sets `finished`;
\* cancel() sets `finished`.
NoTimer ==
    [started |-> FALSE, finished |-> FALSE, running |-> FALSE,
     left |-> 0, fn |-> "none", arg |-> 0]

NewTimer(interval, fn, arg) ==
    [started |-> FALSE, finished |-> FALSE, running |-> FALSE,
     left |-> interval, fn |-> fn, arg |-> arg]

\* Started, not yet fired, not cancelled.
Live(tm) == tm.started /\ ~tm.finished /\ ~tm.running

\* A variant of Timer.cancel() that leaves the Timer waiting.
Cancel_noop(tm) == tm

\* Timer.cancel()
Cancel(tm) == [tm EXCEPT !.finished = TRUE]

\* A finished Timer whose thread has ended keeps only that it was started
\* and has finished.
Kept(tm) ==
    IF tm.finished /\ ~tm.running
    THEN [NoTimer EXCEPT !.started = tm.started, !.finished = TRUE]
    ELSE tm

\* The Timers self.timer no longer refers to, with `old` one of them from
\* now on: those that still wait or are calling their function.
Orphans(rest, old) ==
    IF Live(old) \/ old.running THEN rest \cup {old} ELSE rest

\* ============================================================ SomfyShade
\* A variant of _travelTimeReqd: the full travel time whatever the position.
TravelTimeReqd_full(pos, tt, positionSP) == tt * 100

\* _travelTimeReqd(positionSP), in hundredths of a second.
TravelTimeReqd(pos, tt, positionSP) ==
    IF pos = -1 THEN tt * 100
    ELSE Abs(tt * (positionSP - pos))

\* A variant of _updatePosition's arithmetic without the min and max.
UpdatedPosition_unclamped(pos, tt, cmd, el) ==
    LET timeDifference == Max(el, 0) IN
    IF timeDifference >= tt * 100
    THEN IF cmd = "U" THEN 100
         ELSE IF cmd = "D" THEN 0
         ELSE pos
    ELSE IF timeDifference > 0 /\ pos >= 0
    THEN IF cmd = "U"
         THEN IntOf(pos * tt + timeDifference, tt)
         ELSE IF cmd = "D"
         THEN IntOf(pos * tt - timeDifference, tt)
         ELSE pos
    ELSE pos

\* A variant of _updatePosition that estimates from an unknown position too.
UpdatedPosition_guessed(pos, tt, cmd, el) ==
    LET timeDifference == Max(el, 0) IN
    IF timeDifference >= tt * 100
    THEN IF cmd = "U" THEN 100
         ELSE IF cmd = "D" THEN 0
         ELSE pos
    ELSE IF timeDifference > 0
    THEN IF cmd = "U"
         THEN IntOf(Max(Min(pos * tt + timeDifference, 100 * tt), 0), tt)
         ELSE IF cmd = "D"
         THEN IntOf(Max(Min(pos * tt - timeDifference, 100 * tt), 0), tt)
         ELSE pos
    ELSE pos

\* A variant of _updatePosition that forgets the position when travelTime
\* has passed and there is no last command.
UpdatedPosition_forgets(pos, tt, cmd, el) ==
    LET timeDifference == Max(el, 0) IN
    IF timeDifference >= tt * 100
    THEN IF cmd = "U" THEN 100
         ELSE IF cmd = "D" THEN 0
         ELSE -1
    ELSE IF timeDifference > 0 /\ pos >= 0
    THEN IF cmd = "U"
         THEN IntOf(Max(Min(pos * tt + timeDifference, 100 * tt), 0), tt)
         ELSE IF cmd = "D"
         THEN IntOf(Max(Min(pos * tt - timeDifference, 100 * tt), 0), tt)
         ELSE pos
    ELSE pos

\* The position _updatePosition leaves, from the time since the last command.
UpdatedPosition(pos, tt, cmd, el) ==
    LET timeDifference == Max(el, 0) IN
    IF timeDifference >= tt * 100
    THEN IF cmd = "U" THEN 100
         ELSE IF cmd = "D" THEN 0
         ELSE pos
    ELSE IF timeDifference > 0 /\ pos >= 0
    THEN IF cmd = "U"
         THEN IntOf(Max(Min(pos * tt + timeDifference, 100 * tt), 0), tt)
         ELSE IF cmd = "D"
         THEN IntOf(Max(Min(pos * tt - timeDifference, 100 * tt), 0), tt)
         ELSE pos
    ELSE pos

\* A variant of setShadePosition's branches: Down towards a higher target.
ShadeMove_reversed(pos, tt, positionSP) ==
    LET reqd == IF pos = -1 THEN tt * 100 ELSE Abs(tt * (positionSP - pos)) IN
    IF positionSP <= 0 THEN [cmd |-> "D", timeSP |-> reqd, nextCmd |-> ""]
    ELSE IF positionSP >= 100 THEN [cmd |-> "U", timeSP |-> reqd, nextCmd |-> ""]
    ELSE IF pos = -1 THEN [cmd |-> "D", timeSP |-> reqd, nextCmd |-> "P"]
    ELSE IF positionSP > pos THEN [cmd |-> "D", timeSP |-> reqd, nextCmd |-> "S"]
    ELSE [cmd |-> "U", timeSP |-> reqd, nextCmd |-> "S"]

\* The branch setShadePosition takes: the motor command, the Timer's
\* interval and _command's nextCmd ("" is its default, "P" stands for the
\* number positionSP).
ShadeMove(pos, tt, positionSP) ==
    LET reqd == TravelTimeReqd(pos, tt, positionSP) IN
    IF positionSP <= 0 THEN [cmd |-> "D", timeSP |-> reqd, nextCmd |-> ""]
    ELSE IF positionSP >= 100 THEN [cmd |-> "U", timeSP |-> reqd, nextCmd |-> ""]
    ELSE IF pos = -1 THEN [cmd |-> "D", timeSP |-> reqd, nextCmd |-> "P"]
    ELSE IF positionSP > pos THEN [cmd |-> "U", timeSP |-> reqd, nextCmd |-> "S"]
    ELSE [cmd |-> "D", timeSP |-> reqd, nextCmd |-> "S"]

\* A variant of _command's choice: a number as nextCmd is not recognised.
TimerFor_unstaged(timeSP, nextCmd, positionSP) ==
    IF nextCmd = "S" THEN NewTimer(timeSP, "_stop", 0)
    ELSE NewTimer(timeSP, "_updatePosition", 0)

\* _command's choice of the Timer's function: "S" is _stop, a number is
\* setShadePosition(number), anything else _updatePosition.
TimerFor(timeSP, nextCmd, positionSP) ==
    IF nextCmd = "S" THEN NewTimer(timeSP, "_stop", 0)
    ELSE IF nextCmd = "P" THEN NewTimer(timeSP, "setShadePosition", positionSP)
    ELSE NewTimer(timeSP, "_updatePosition", 0)

\* The shade's and the Controller's state as one record.
World ==
    [position |-> position, travelTime |-> travelTime, lastCmd |-> lastCmd,
     elapsed |-> elapsed, timer |-> timer, others |-> others,
     ser |-> ser, gv1 |-> gv1, serialPort |-> serialPort]

SetWorld(w) ==
    /\ position' = w.position
    /\ travelTime' = w.travelTime
    /\ lastCmd' = w.lastCmd
    /\ elapsed' = w.elapsed
    /\ timer' = w.timer
    /\ others' = w.others
    /\ ser' = w.ser
    /\ gv1' = w.gv1
    /\ serialPort' = w.serialPort

SerialOf(w) == [ser |-> w.ser, gv1 |-> w.gv1, serialPort |-> w.serialPort]

\* A thread's frame: where it is, its arguments and locals, and what the
\* handler did (sends: its calls of parent.command; frames: what they wrote
\* to the port; stale: a Timer's thread wrote after self.timer had been
\* replaced; ret: the handler's result; cancelled: its _updatePosition
\* cancelled a pending Timer; was: the position its _updatePosition found).
IdleFrame ==
    [pc |-> "idle", op |-> "none", arg |-> 0, inTimer |-> FALSE,
     positionSP |-> 0, cmd |-> "", timeSP |-> 0, nextCmd |-> "",
     upRet |-> "ret", sendRet |-> "ret", success |-> FALSE,
     sends |-> 0, frames |-> <<>>, stale |-> FALSE, ret |-> "none",
     cancelled |-> FALSE, was |-> 0]

\* The frame of a handler that calls setShadePosition(positionSP).
CallSetPosition(f, op, arg, positionSP) ==
    [f EXCEPT !.op = op, !.arg = arg, !.positionSP = positionSP,
              !.upRet = "set_position", !.pc = "update_cancel"]

\* The frame of a handler that calls _stop().
CallStop(f, op) ==
    [f EXCEPT !.op = op, !.cmd = "S", !.sendRet = "stop_update", !.pc = "send"]

\* The frame of a Timer's call of _updatePosition().
CallUpdatePosition(f, op) ==
    [f EXCEPT !.op = op, !.upRet = "update_return", !.pc = "update_cancel"]

\* _updatePosition: self.timer.cancel()
updatePosition_cancel(w, f) ==
    {[w |-> [w EXCEPT !.timer = Kept(Cancel(@))],
      f |-> [f EXCEPT !.cancelled = Live(w.timer), !.pc = "update_position"]]}

\* A variant of _updatePosition that leaves lastCmd and lastCmdTime alone.
updatePosition_kept(w, f) ==
    {[w |-> [w EXCEPT
               !.position = UpdatedPosition(w.position, w.travelTime,
                                            w.lastCmd, w.elapsed)],
      f |-> [f EXCEPT !.was = w.position, !.pc = f.upRet]]}

\* _updatePosition: the position, lastCmdTime = time.time(), lastCmd = ""
updatePosition(w, f) ==
    {[w |-> [w EXCEPT
               !.position = UpdatedPosition(w.position, w.travelTime,
                                            w.lastCmd, w.elapsed),
               !.elapsed = 0,
               !.lastCmd = ""],
      f |-> [f EXCEPT !.was = w.position, !.pc = f.upRet]]}

\* _updatePosition called by a Timer: return True
updatePosition_return(w, f) ==
    {[w |-> w, f |-> [f EXCEPT !.ret = "True", !.pc = "ret"]]}

\* setShadePosition after _updatePosition: the branch and _command's call
setShadePosition(w, f) ==
    LET m == ShadeMove(w.position, w.travelTime, f.positionSP) IN
    {[w |-> w,
      f |-> [f EXCEPT !.cmd = m.cmd, !.timeSP = m.timeSP,
                      !.nextCmd = m.nextCmd,
                      !.sendRet = "command_stamp", !.pc = "send"]]}

\* self.parent.command(self.address, command): the Controller sends, with
\* every outcome of its opens and writes (`env` = "any") or with those in
\* which the frame is written (`env` = "ok").
parent_command(w, f, env) ==
    {[w |-> [w EXCEPT !.ser = r.s.ser, !.gv1 = r.s.gv1],
      f |-> [f EXCEPT !.success = (r.g.ret = "True"),
                      !.sends = @ + 1,
                      !.frames = @ \o r.g.written,
                      !.stale = @ \/ (r.g.written # <<>> /\ f.inTimer
                                       /\ ~w.timer.running),
                      !.pc = f.sendRet]] :
       r \in {x \in CommandRuns[<<SerialOf(w), f.cmd>>] :
                env = "ok" => x.g.ret = "True"}}

\* _command: lastCmdTime = time.time(); lastCmd = _command
command_stamp(w, f) ==
    {[w |-> [w EXCEPT !.elapsed = 0, !.lastCmd = f.cmd],
      f |-> [f EXCEPT !.pc = "command_cancel"]]}

\* _command: if self.timer is not None: self.timer.cancel()
command_cancel(w, f) ==
    {[w |-> [w EXCEPT !.timer = Kept(Cancel(@))],
      f |-> [f EXCEPT !.pc = "command_timer"]]}

\* _command: self.timer = Timer(timeSP, ...)
command_timer(w, f) ==
    LET left == Orphans(w.others, w.timer) IN
    IF Cardinality(left) > MaxTimers THEN {}
    ELSE {[w |-> [w EXCEPT
                    !.timer = TimerFor(f.timeSP, f.nextCmd, f.positionSP),
                    !.others = left],
           f |-> [f EXCEPT !.pc = "command_start"]]}

\* A variant of _command that never starts the Timer.
command_start_never(w, f) ==
    {[w |-> w, f |-> [f EXCEPT !.ret = "True", !.pc = "ret"]]}

\* _command: self.timer.start(); return True, or False when start raises
\* (a Timer is a thread, and a thread can be started once)
command_start(w, f) ==
    IF w.timer.started
    THEN {[w |-> w, f |-> [f EXCEPT !.ret = "False", !.pc = "ret"]]}
    ELSE {[w |-> [w EXCEPT !.timer = Kept([@ EXCEPT !.started = TRUE])],
           f |-> [f EXCEPT !.ret = "True", !.pc = "ret"]]}

\* _stop after parent.command: self._updatePosition()
stop_update(w, f) ==
    {[w |-> w, f |-> [f EXCEPT !.upRet = "stop_return", !.pc = "update_cancel"]]}

\* A variant of _stop that returns True whatever the send returned.
stop_return_true(w, f) ==
    {[w |-> w, f |-> [f EXCEPT !.ret = "True", !.pc = "ret"]]}

\* _stop: return _success
stop_return(w, f) ==
    {[w |-> w, f |-> [f EXCEPT !.ret = Bool(f.success), !.pc = "ret"]]}

\* A variant of setTravelTime's range test that takes the ends for out of
\* range.
setTravelTime_check_open(w, f) ==
    IF f.arg <= 0 \/ f.arg >= 60
    THEN {[w |-> w, f |-> [f EXCEPT !.ret = "False", !.pc = "ret"]]}
    ELSE {[w |-> [w EXCEPT !.travelTime = f.arg],
           f |-> [f EXCEPT !.ret = "True", !.pc = "ret"]]}

\* setTravelTime with a numeric value
setTravelTime_check(w, f) ==
    IF f.arg < 0 \/ f.arg > 60
    THEN {[w |-> w, f |-> [f EXCEPT !.ret = "False", !.pc = "ret"]]}
    ELSE {[w |-> [w EXCEPT !.travelTime = f.arg],
           f |-> [f EXCEPT !.ret = "True", !.pc = "ret"]]}

\* One step of a thread in a SomfyShade handler.
ShadeStep(w, f, env) ==
    CASE f.pc = "update_cancel" -> updatePosition_cancel(w, f)
      [] f.pc = "update_position" -> updatePosition(w, f)
      [] f.pc = "update_return" -> updatePosition_return(w, f)
      [] f.pc = "set_position" -> setShadePosition(w, f)
      [] f.pc = "send" -> parent_command(w, f, env)
      [] f.pc = "command_stamp" -> command_stamp(w, f)
      [] f.pc = "command_cancel" -> command_cancel(w, f)
      [] f.pc = "command_timer" -> command_timer(w, f)
      [] f.pc = "command_start" -> command_start(w, f)
      [] f.pc = "stop_update" -> stop_update(w, f)
      [] f.pc = "stop_return" -> stop_return(w, f)
      [] f.pc = "set_travel_time" -> setTravelTime_check(w, f)
      [] OTHER -> {}

\* A handler run from its call to its return with no other thread between.
RECURSIVE ShadeRuns(_, _, _)
ShadeRuns(w, f, env) ==
    IF f.pc = "ret" THEN {[w |-> w, f |-> f]}
    ELSE UNION {ShadeRuns(n.w, n.f, env) : n \in ShadeStep(w, f, env)}

\* ---------------------------------------------------- the handlers' calls
\* DON without a value: setShadePosition(100)
Call_upDON(w) == CallSetPosition(IdleFrame, "up", 100, 100)
\* DON with a value: setShadePosition(int(value))
Call_up(w, value) == CallSetPosition(IdleFrame, "up", value, value)
\* DOF: setShadePosition(0)
Call_down(w) == CallSetPosition(IdleFrame, "down", 0, 0)
\* A variant of BRT without the test for an unknown position.
Call_up5_always(w) == CallSetPosition(IdleFrame, "up5", w.position, w.position + 5)
\* BRT: False when the position is unknown, else setShadePosition(position + 5)
Call_up5(w) ==
    IF w.position = -1
    THEN [IdleFrame EXCEPT !.op = "up5", !.arg = -1, !.ret = "False", !.pc = "ret"]
    ELSE CallSetPosition(IdleFrame, "up5", w.position, w.position + 5)
\* DIM: False when the position is unknown, else setShadePosition(position - 5)
Call_down5(w) ==
    IF w.position = -1
    THEN [IdleFrame EXCEPT !.op = "down5", !.arg = -1, !.ret = "False", !.pc = "ret"]
    ELSE CallSetPosition(IdleFrame, "down5", w.position, w.position - 5)
\* STOP: _stop()
Call_stop(w) == CallStop(IdleFrame, "stop")
\* SET_TRAVEL_TIME
Call_setTravelTime(w, value) ==
    [IdleFrame EXCEPT !.op = "setTravelTime", !.arg = value,
                      !.pc = "set_travel_time"]

\* SET_TRAVEL_TIME with a value that float() does not parse: return False
Call_setTravelTimeText(w) ==
    [IdleFrame EXCEPT !.op = "setTravelTimeText", !.ret = "False", !.pc = "ret"]

\* QUERY: the drivers are reported (ST only when the position is known);
\* no field of the shade is written and nothing is returned.
Call_query(w) ==
    [IdleFrame EXCEPT !.op = "query", !.arg = w.position, !.ret = "None",
                      !.pc = "ret"]

\* Timer.run of Timer tm: the function it calls, in the Timer's own thread.
Call_timer(tm) ==
    LET mine == [IdleFrame EXCEPT !.inTimer = TRUE, !.arg = tm.arg] IN
    IF tm.fn = "_stop" THEN CallStop(mine, "_stop")
    ELSE IF tm.fn = "setShadePosition"
    THEN CallSetPosition(mine, "setShadePosition", tm.arg, tm.arg)
    ELSE CallUpdatePosition(mine, "_updatePosition")

\* Timer.run: the interval has passed and `finished` is not set.
Expired(tm) == Live(tm) /\ tm.left = 0
AllTimers(w) == {w.timer} \cup w.others
Firing(w, tm) ==
    IF tm = w.timer THEN [w EXCEPT !.timer.running = TRUE]
    ELSE [w EXCEPT !.others = (@ \ {tm}) \cup {[tm EXCEPT !.running = TRUE]}]

\* The handler has returned; a Timer's thread then sets `finished` and ends.
Returned(w, f) ==
    IF ~f.inTimer THEN w
    ELSE IF w.timer.running
    THEN [w EXCEPT !.timer = Kept([@ EXCEPT !.finished = TRUE, !.running = FALSE])]
    ELSE [w EXCEPT !.others = {o \in @ : ~o.running}]

\* The clock moves by dt.
Passed(tm, dt) == IF Live(tm) THEN [tm EXCEPT !.left = Max(@ - dt, 0)] ELSE tm

Advanced(w, dt) ==
    [w EXCEPT !.elapsed = @ + dt,
              !.timer = Passed(@, dt),
              !.others = {Passed(o, dt) : o \in @}]

\* ================================================================ states
NoGoal == [target |-> -2, from |-> -2]

TypeOK ==
    /\ position \in -1 .. 100
    /\ travelTime \in TravelTimes
    /\ lastCmd \in {"", "U", "D"}
    /\ elapsed \in 0 .. MaxElapsed
    /\ Cardinality(others) <= MaxTimers + 1
    /\ ser \in {"none", "open", "closed"}
    /\ gv1 \in {0, 1}

\* After Controller.__init__/start and SomfyShade.__init__/start: the port
\* is configured, start's connectSerial has connected or has not, the
\* position is unknown, lastCmdTime = 0 lies further back than any travel
\* time, and self.timer is a Timer that was never started.
Init ==
    /\ position = -1
    /\ travelTime \in TravelTimes
    /\ lastCmd = ""
    /\ elapsed = MaxElapsed
    /\ timer = NewTimer(100, "log", 0)
    /\ others = {}
    /\ ser \in {"none", "open"}
    /\ gv1 = IF ser = "open" THEN 1 ELSE 0
    /\ serialPort = "/dev/ttyUSB0"
    /\ loc = [t \in Threads |-> IdleFrame]
    /\ sloc = IdleSerialFrame
    /\ goal = NoGoal
    /\ peer = IdleSerialFrame
    /\ strays = 0

AllIdle == \A t \in Threads : loc[t].pc = "idle"

\* ------------------------------------------- Spec: one handler at a time
\* Thread t runs the handler whose call is frame f, from world w, to its
\* return.
Handle(t, w, f, env) ==
    /\ AllIdle
    /\ \E n \in ShadeRuns(w, f, env) :
         /\ SetWorld(n.w)
         /\ loc' = [loc EXCEPT ![t] = n.f]

upDON ==
    /\ Handle("cmd", World, Call_upDON(World), "any")
    /\ UNCHANGED <<sloc, goal, peer, strays>>
up(value) ==
    /\ Handle("cmd", World, Call_up(World, value), "any")
    /\ UNCHANGED <<sloc, goal, peer, strays>>
down ==
    /\ Handle("cmd", World, Call_down(World), "any")
    /\ UNCHANGED <<sloc, goal, peer, strays>>
up5 ==
    /\ Handle("cmd", World, Call_up5(World), "any")
    /\ UNCHANGED <<sloc, goal, peer, strays>>
down5 ==
    /\ Handle("cmd", World, Call_down5(World), "any")
    /\ UNCHANGED <<sloc, goal, peer, strays>>
stop ==
    /\ Handle("cmd", World, Call_stop(World), "any")
    /\ UNCHANGED <<sloc, goal, peer, strays>>
setTravelTime(value) ==
    /\ Handle("cmd", World, Call_setTravelTime(World, value), "any")
    /\ UNCHANGED <<sloc, goal, peer, strays>>
setTravelTimeText ==
    /\ Handle("cmd", World, Call_setTravelTimeText(World), "any")
    /\ UNCHANGED <<sloc, goal, peer, strays>>
query ==
    /\ Handle("cmd", World, Call_query(World), "any")
    /\ UNCHANGED <<sloc, goal, peer, strays>>

TimerRun(tm) ==
    /\ Expired(tm)
    /\ Handle("tmr", Firing(World, tm), Call_timer(tm), "any")
    /\ UNCHANGED <<sloc, goal, peer, strays>>

Return(t) ==
    /\ loc[t].pc = "ret"
    /\ SetWorld(Returned(World, loc[t]))
    /\ loc' = [loc EXCEPT ![t] = IdleFrame]
    /\ UNCHANGED <<sloc, goal, peer, strays>>

\* While no motor command is being timed (lastCmd is "" and no Timer waits)
\* nothing reads the clock before lastCmdTime is set again.
Timing == lastCmd # "" \/ \E tm \in AllTimers(World) : Live(tm)

Tick(dt) ==
    /\ AllIdle
    /\ Timing
    /\ elapsed + dt <= MaxElapsed
    /\ SetWorld(Advanced(World, dt))
    /\ UNCHANGED <<loc, sloc, goal, peer, strays>>

\* The clock moves to the moment the next Timer expires.
Waiting == {tm \in AllTimers(World) : Live(tm) /\ tm.left > 0}
NextExpiry ==
    LET tm == CHOOSE k \in Waiting : \A j \in Waiting : k.left <= j.left
    IN tm.left

TickToExpiry ==
    /\ AllIdle
    /\ Waiting # {}
    /\ elapsed + NextExpiry <= MaxElapsed
    /\ SetWorld(Advanced(World, NextExpiry))
    /\ UNCHANGED <<loc, sloc, goal, peer, strays>>

Next ==
    \/ upDON
    \/ \E v \in OnValues : up(v)
    \/ down
    \/ up5
    \/ down5
    \/ stop
    \/ \E v \in TimeValues : setTravelTime(v)
    \/ setTravelTimeText
    \/ query
    \/ \E tm \in AllTimers(World) : TimerRun(tm)
    \/ \E t \in Threads : Return(t)
    \/ \E dt \in TickSteps : Tick(dt)
    \/ TickToExpiry

Spec == Init /\ [][Next]_vars

\* ------------------------- SpecRace: the two threads of a shade interleave
\* The command thread and the thread of an expired Timer take their steps
\* one at a time, in any order.  The port opens and every write is written.
RaceValues == {50}

RaceInit ==
    /\ Init
    /\ travelTime = 2
    /\ ser = "open"

Begin(t, w, f) ==
    /\ loc[t].pc = "idle"
    /\ SetWorld(w)
    /\ loc' = [loc EXCEPT ![t] = f]
    /\ UNCHANGED <<sloc, goal, peer, strays>>

RaceUp(value) == Begin("cmd", World, Call_up(World, value))
RaceDown == Begin("cmd", World, Call_down(World))
RaceStop == Begin("cmd", World, Call_stop(World))
RaceTimerRun(tm) ==
    /\ Expired(tm)
    /\ Begin("tmr", Firing(World, tm), Call_timer(tm))

RaceStep(t) ==
    /\ loc[t].pc \notin {"idle", "ret"}
    /\ \E n \in ShadeStep(World, loc[t], "ok") :
         /\ SetWorld(n.w)
         /\ loc' = [loc EXCEPT ![t] = n.f]
    /\ UNCHANGED <<sloc, goal, peer, strays>>

RaceNext ==
    \/ \E v \in RaceValues : RaceUp(v)
    \/ RaceDown
    \/ RaceStop
    \/ \E tm \in AllTimers(World) : RaceTimerRun(tm)
    \/ \E t \in Threads : RaceStep(t)
    \/ \E t \in Threads : Return(t)
    \/ TickToExpiry

SpecRace == RaceInit /\ [][RaceNext]_vars

\* ------------------- SpecLive: one setShadePosition call, and what follows
\* An idle shade, one call of setShadePosition through DON, every write
\* written, each Timer run at the moment it expires, no other command.
LivePositions == {-1, 0, 30, 50, 100}
LiveTravelTimes == {0, 1, 8, 10, 60}
LiveTargets == {0, 30, 50, 80, 100}

LiveInit ==
    /\ position \in LivePositions
    /\ travelTime \in LiveTravelTimes
    /\ lastCmd = ""
    /\ elapsed = 0
    /\ timer = NewTimer(100, "log", 0)
    /\ others = {}
    /\ ser = "open"
    /\ gv1 = 1
    /\ serialPort = "/dev/ttyUSB0"
    /\ loc = [t \in Threads |-> IdleFrame]
    /\ sloc = IdleSerialFrame
    /\ goal = NoGoal
    /\ peer = IdleSerialFrame
    /\ strays = 0

LiveCall(value) ==
    /\ goal = NoGoal
    /\ Handle("cmd", World, Call_up(World, value), "ok")
    /\ goal' = [target |-> value, from |-> position]
    /\ UNCHANGED <<sloc, peer, strays>>

LiveExpiry ==
    /\ AllIdle
    /\ Waiting # {}
    /\ SetWorld(Advanced(World, NextExpiry))
    /\ UNCHANGED <<loc, sloc, goal, peer, strays>>

LiveTimerRun(tm) ==
    /\ Expired(tm)
    /\ Handle("tmr", Firing(World, tm), Call_timer(tm), "ok")
    /\ UNCHANGED <<sloc, goal, peer, strays>>

LiveNext ==
    \/ \E v \in LiveTargets : LiveCall(v)
    \/ LiveExpiry
    \/ \E tm \in AllTimers(World) : LiveTimerRun(tm)
    \/ \E t \in Threads : Return(t)

\* A Timer's thread runs once the interval has passed, and a handler that
\* was called returns.
SpecLive == LiveInit /\ [][LiveNext]_vars /\ WF_vars(LiveNext)

\* ------------------------------ SpecSerial: calls into the Controller alone
SerialInit ==
    /\ Init
    /\ travelTime = 2

SerialCall(g) ==
    /\ sloc.pc = "idle"
    /\ sloc' = g
    /\ UNCHANGED <<shadeVars, serialVars, loc, goal, peer, strays>>

SerialSend(c) == SerialCall(CallSend(Frame(Address, c)))
SerialSendEmpty == SerialCall(CallSend(<<>>))
SerialConnect == SerialCall(CallConnect)
SerialDisconnect == SerialCall(CallDisconnect)

SerialStepAction ==
    /\ sloc.pc \notin {"idle", "ret"}
    /\ \E n \in SerialStep(Serial, sloc) :
         /\ SetSerial(n.s)
         /\ sloc' = n.g
    /\ UNCHANGED <<shadeVars, loc, goal, peer, strays>>

SerialReturn ==
    /\ sloc.pc = "ret"
    /\ sloc' = IdleSerialFrame
    /\ UNCHANGED <<shadeVars, serialVars, loc, goal, peer, strays>>

SerialNext ==
    \/ \E c \in {"U", "D", "S"} : SerialSend(c)
    \/ SerialSendEmpty
    \/ SerialConnect
    \/ SerialDisconnect
    \/ SerialStepAction
    \/ SerialReturn

SpecSerial == SerialInit /\ [][SerialNext]_vars

\* ------------------- SpecConn: two threads in the Controller at one time
\* One thread sends a shade's command; another sends the command of a
\* second shade or, as longPoll, calls connectSerial.  Nothing in
\* _sendURTSCmd, connectSerial or command keeps one out while the other is
\* inside, so their steps interleave freely.
ConnInit ==
    /\ Init
    /\ travelTime = 2

ConnSend(c) ==
    /\ sloc.pc = "idle"
    /\ sloc' = CallSend(Frame(Address, c))
    /\ UNCHANGED <<shadeVars, serialVars, loc, goal, peer, strays>>

PeerSend(c) ==
    /\ peer.pc = "idle"
    /\ peer' = CallSend(Frame(PeerAddress, c))
    /\ UNCHANGED <<shadeVars, serialVars, loc, goal, sloc, strays>>

\* longPoll: self.connectSerial()
longPoll ==
    /\ peer.pc = "idle"
    /\ peer' = CallConnect
    /\ UNCHANGED <<shadeVars, serialVars, loc, goal, sloc, strays>>

\* self._ser = serial.Serial(...) while self._ser is an open handle: the
\* step g -> n assigned a handle (it did not raise), and the handle that
\* self._ser referred to is open and no longer referred to.
Strayed(s, g, n) ==
    IF /\ g.pc = "connect_loop"
       /\ s.ser = "open"
       /\ n.g.opens = g.opens + 1
       /\ n.g.ctries = g.ctries
    THEN 1 ELSE 0

ConnStep(g, n) ==
    /\ g.pc \notin {"idle", "ret"}
    /\ n \in SerialStep(Serial, g)
    /\ strays + Strayed(Serial, g, n) <= MaxStrays
    /\ SetSerial(n.s)
    /\ strays' = strays + Strayed(Serial, g, n)
    /\ UNCHANGED <<shadeVars, loc, goal>>

ConnStepMine ==
    \E n \in SerialStep(Serial, sloc) :
        /\ ConnStep(sloc, n)
        /\ sloc' = n.g
        /\ peer' = peer

ConnStepPeer ==
    \E n \in SerialStep(Serial, peer) :
        /\ ConnStep(peer, n)
        /\ peer' = n.g
        /\ sloc' = sloc

\* A handle that nothing refers to is released, and releasing closes it.
Release ==
    /\ strays > 0
    /\ strays' = strays - 1
    /\ UNCHANGED <<shadeVars, serialVars, loc, goal, sloc, peer>>

ConnReturnMine ==
    /\ sloc.pc = "ret"
    /\ sloc' = IdleSerialFrame
    /\ UNCHANGED <<shadeVars, serialVars, loc, goal, peer, strays>>

ConnReturnPeer ==
    /\ peer.pc = "ret"
    /\ peer' = IdleSerialFrame
    /\ UNCHANGED <<shadeVars, serialVars, loc, goal, sloc, strays>>

ConnNext ==
    \/ ConnSend("U")
    \/ PeerSend("D")
    \/ longPoll
    \/ ConnStepMine
    \/ ConnStepPeer
    \/ Release
    \/ ConnReturnMine
    \/ ConnReturnPeer

SpecConn == ConnInit /\ [][ConnNext]_vars

\* ================================================================ claims
LiveTimers == {tm \in AllTimers(World) : Live(tm)}

\* Thread t has returned from a handler in which setShadePosition called
\* _command.
SetPositionOps == {"up", "down", "up5", "down5", "setShadePosition"}
Moved(t) ==
    /\ loc[t].pc = "ret"
    /\ loc[t].op \in SetPositionOps
    /\ loc[t].sends > 0

\* What the handler of thread t wrote to the port is nothing (the send
\* failed) or the one frame of command c.
SentOnly(t, c) ==
    /\ loc[t].cmd = c
    /\ loc[t].frames = IF loc[t].success THEN <<Frame(Address, c)>> ELSE <<>>

\* self.timer waits, for `interval` hundredths of a second, to call fn.
Armed(interval, fn) ==
    /\ Live(timer)
    /\ timer.left = interval
    /\ timer.fn = fn

Boundary(t) == loc[t].positionSP <= 0 \/ loc[t].positionSP >= 100

\* C1: in every state, under every interleaving of a Timer's thread with a
\* command on the same shade, the shade has at most one live Timer (started,
\* not yet fired, not cancelled).
C1_AtMostOneLiveTimer == Cardinality(LiveTimers) <= 1

\* C2: a Timer that a new command has replaced sends no frame afterwards:
\* no thread of a Timer writes to the port once self.timer is another Timer.
C2_ReplacedTimerSilent == \A t \in Threads : ~loc[t].stale

C5_InteriorMove ==
    \A t \in Threads :
        (Moved(t) /\ ~Boundary(t) /\ position # -1) =>
            /\ loc[t].positionSP > position => SentOnly(t, "U")
            /\ loc[t].positionSP < position => SentOnly(t, "D")
            /\ Armed(travelTime * Abs(loc[t].positionSP - position), "_stop")

\* A move down to a target in between that was sent, with a travel time.
C5_Witness ==
    \E t \in Threads :
        /\ Moved(t) /\ ~Boundary(t)
        /\ position # -1
        /\ loc[t].positionSP < position
        /\ loc[t].success
        /\ travelTime > 0

\* C7: in every state the position is -1 (unknown) or an integer in 0..100.
C7_PositionInRange == position \in {-1} \cup 0 .. 100

\* DON with a target above 100 has been accepted from a position that a
\* partial run left in between.
C7_Witness ==
    /\ loc["cmd"].pc = "ret"
    /\ loc["cmd"].op = "up"
    /\ loc["cmd"].arg > 100
    /\ position \in 1 .. 99
    /\ lastCmd = "U"

\* The delays after which _updatePosition is run a second time.
SecondRunDelays == {0, MaxElapsed} \cup TickSteps

\* Thread t has returned from a handler that ends with _updatePosition.
Finalized(t) ==
    /\ loc[t].pc = "ret"
    /\ loc[t].op \in {"stop", "_stop", "_updatePosition"}

\* C8: directly after _updatePosition has run, lastCmd is "" and
\* lastCmdTime is now, and running _updatePosition again, at once or after
\* any delay, leaves the position unchanged.
C8_UpdateIdempotent ==
    \A t \in Threads :
        Finalized(t) =>
            /\ lastCmd = ""
            /\ elapsed = 0
            /\ \A dt \in SecondRunDelays :
                 \A n \in ShadeRuns(Advanced(World, dt),
                                    CallUpdatePosition(IdleFrame, "_updatePosition"),
                                    "any") :
                     n.w.position = position

\* STOP has finalized a partial run at a position in between.
C8_Witness ==
    /\ Finalized("cmd")
    /\ loc["cmd"].success
    /\ position \in 1 .. 99
    /\ travelTime > 0

\* C9: when the send of setShadePosition's motor command fails, the handler
\* (DON, DOF, BRT, DIM or a staged setShadePosition) returns False.
C9_FailureReported ==
    \A t \in Threads :
        (Moved(t) /\ ~loc[t].success) => loc[t].ret = "False"

\* The call that SpecLive follows set out from an unknown position for a
\* target strictly between 0 and 100.
Staged == goal.from = -1 /\ goal.target \in 1 .. 99

\* The first stage: DON has returned.
C4_Down ==
    (loc["cmd"].pc = "ret" /\ Staged) =>
        /\ SentOnly("cmd", "D")
        /\ loc["cmd"].success
        /\ Armed(travelTime * 100, "setShadePosition")
        /\ timer.arg = goal.target

\* The second stage: the Timer's call of setShadePosition has returned.
C4_Up ==
    (loc["tmr"].pc = "ret" /\ loc["tmr"].op = "setShadePosition" /\ Staged) =>
        /\ position = 0
        /\ SentOnly("tmr", "U")
        /\ loc["tmr"].success
        /\ Armed(travelTime * goal.target, "_stop")

\* The end: the Timer's call of _stop has returned.
C4_Stopped ==
    (loc["tmr"].pc = "ret" /\ loc["tmr"].op = "_stop" /\ Staged) =>
        /\ SentOnly("tmr", "S")
        /\ loc["tmr"].success
        /\ position = goal.target

\* C4 as stated: from an unknown position, setShadePosition(target) with
\* 0 < target < 100 sends Down and arms the Timer for the full travel time
\* to call setShadePosition(target); when it expires the position becomes 0,
\* Up is sent and the Timer is armed for travelTime * target / 100 to call
\* _stop; after that Stop the position is target.
C4_TwoStage == C4_Down /\ C4_Up /\ C4_Stopped

\* C4 as amended: the same two stages for every travel time, and the
\* position is target after the Stop when travelTime > 0.
C4_TwoStagePositive == C4_Down /\ C4_Up /\ (travelTime > 0 => C4_Stopped)

\* Unknown position, travel time 8 s, target 50: the Stop has been sent.
C4_Witness ==
    /\ loc["tmr"].pc = "ret"
    /\ loc["tmr"].op = "_stop"
    /\ goal = [target |-> 50, from |-> -1]
    /\ travelTime = 8
    /\ position = 50

\* Idle (lastCmd "", no Timer pending, no handler running) at the target.
Settled ==
    /\ AllIdle
    /\ lastCmd = ""
    /\ LiveTimers = {}
    /\ goal # NoGoal
    /\ position = goal.target

\* C6: with a travel time in (0, 60], every write written, each Timer run
\* when it expires and no other command, a shade that is idle at any
\* position and is sent setShadePosition(target), target in 0..100,
\* eventually is idle at position target and stays so.
C6_SettlesAtTarget == (travelTime > 0) => <>[]Settled

\* Position 30, travel time 10 s, target 80: idle at 80.
C6_Witness ==
    /\ Settled
    /\ goal = [target |-> 80, from |-> 30]
    /\ travelTime = 10

\* _sendURTSCmd has returned.
SendReturned == sloc.pc = "ret" /\ sloc.op = "_sendURTSCmd"

ConnectGaveUp == sloc.pc \in {"send_connected", "connect_return"} /\ ~sloc.cres

\* C11: a call of connectSerial opens the port at most 2 times and a call of
\* _sendURTSCmd calls connectSerial at most 3 times, whatever each open
\* does (raises, returns an open handle, returns a handle that is not
\* open); and when connectSerial gives up the port is not open.
C11_BoundedAttempts ==
    /\ sloc.opens <= 2
    /\ sloc.attempts <= 3
    /\ ConnectGaveUp => ser # "open"

\* This step is the command thread's BRT or DIM, from call to return.
NudgeStep ==
    /\ loc["cmd"].pc = "idle"
    /\ loc'["cmd"].op \in {"up5", "down5"}

\* The step ends as a call of setShadePosition(positionSP) can end here.
AsSetPosition(positionSP) ==
    \E n \in ShadeRuns(World, Call_up(World, positionSP), "any") :
        /\ World' = n.w
        /\ loc'["cmd"].ret = n.f.ret
        /\ loc'["cmd"].frames = n.f.frames
        /\ loc'["cmd"].positionSP = positionSP

\* C12: BRT or DIM with the position unknown returns False, writes nothing
\* to the port and leaves position, lastCmd, lastCmdTime and the Timer as
\* they are; with position p known they do what setShadePosition(p + 5) and
\* setShadePosition(p - 5) do.
C12_Nudge ==
    [][NudgeStep =>
         IF position = -1
         THEN /\ loc'["cmd"].ret = "False"
              /\ loc'["cmd"].sends = 0
              /\ loc'["cmd"].frames = <<>>
              /\ UNCHANGED <<shadeVars, serialVars>>
         ELSE AsSetPosition(IF loc'["cmd"].op = "up5" THEN position + 5
                            ELSE position - 5)]_vars

\* BRT or DIM has returned False while the shade, its position unknown,
\* is moving with its Timer waiting.
C12_Witness ==
    /\ loc["cmd"].pc = "ret"
    /\ loc["cmd"].op \in {"up5", "down5"}
    /\ loc["cmd"].ret = "False"
    /\ position = -1
    /\ lastCmd # ""
    /\ Live(timer)

\* Values of SET_TRAVEL_TIME that are tried in every state.
ProbeTimes == {-1, 0, 1, 15, 59, 60, 61, 70}

\* From world w, whose travel time is v, setShadePosition(50) finalizes the
\* position with v and arms the Timer for a time computed from v.
UsesTravelTime(w, v) ==
    \A m \in ShadeRuns(w, Call_up(w, 50), "ok") :
        /\ (w.lastCmd = "U" /\ w.elapsed >= v * 100) => m.w.position = 100
        /\ (w.lastCmd = "D" /\ w.elapsed >= v * 100) => m.w.position = 0
        /\ (w.lastCmd = "U" /\ w.elapsed < v * 100 /\ w.elapsed > 0
              /\ w.position >= 0) =>
             m.w.position = Min((w.position * v + w.elapsed) \div v, 100)
        /\ m.f.timeSP = IF m.w.position = -1 THEN v * 100
                        ELSE v * Abs(50 - m.w.position)

StopStep ==
    /\ loc["cmd"].pc = "idle"
    /\ loc'["cmd"].op = "stop"

\* The position a finalization now leaves: the end of the travel when
\* travelTime has passed since an Up or Down, else the known position moved
\* by elapsed / travelTime * 100 within 0..100, as an integer.
Estimate ==
    IF lastCmd = "" THEN position
    ELSE IF elapsed >= travelTime * 100
    THEN (IF lastCmd = "U" THEN 100 ELSE 0)
    ELSE IF position = -1 \/ elapsed = 0 THEN position
    ELSE IF lastCmd = "U"
    THEN Min((position * travelTime + elapsed) \div travelTime, 100)
    ELSE Max(position * travelTime - elapsed, 0) \div travelTime

\* C14: STOP sends one Stop frame of the shade's channel and finalizes:
\* after it lastCmd is "", no Timer is pending and the position is the
\* estimate from the time the interrupted move has run; it returns True
\* exactly when the send succeeded; an idle shade keeps its position.
C14_Stop ==
    [][StopStep =>
         /\ loc'["cmd"].sends = 1
         /\ loc'["cmd"].cmd = "S"
         /\ loc'["cmd"].frames \in {<<>>, <<Frame(Address, "S")>>}
         /\ loc'["cmd"].ret = Bool(loc'["cmd"].frames # <<>>)
         /\ lastCmd' = ""
         /\ LiveTimers' = {}
         /\ position' = Estimate
         /\ (lastCmd = "" /\ LiveTimers = {}) => position' = position]_vars

\* STOP has interrupted a move, its frame was written, and the position is
\* an estimate in between.
C14_Witness ==
    /\ loc["cmd"].pc = "ret"
    /\ loc["cmd"].op = "stop"
    /\ loc["cmd"].ret = "True"
    /\ loc["cmd"].frames = <<Frame(Address, "S")>>
    /\ position \in 1 .. 99
    /\ LiveTimers = {}

\* What a finalization may make of an unknown position: the end of the
\* travel once travelTime has passed since an Up or Down, else unknown.
FromUnknown ==
    IF lastCmd \in {"U", "D"} /\ elapsed >= travelTime * 100
    THEN {-1, IF lastCmd = "U" THEN 100 ELSE 0}
    ELSE {-1}

\* C15 as stated: an unknown position becomes known only where travelTime
\* has passed since an Up or Down, as 100 or 0, and every STOP leaves an
\* unknown position unknown.
C15_UnknownKept ==
    [][position = -1 =>
         /\ position' \in FromUnknown
         /\ StopStep => position' = -1]_vars

\* C15: an unknown position becomes known only in a finalization where
\* travelTime has passed since an Up or Down, as 100 (Up) or 0 (Down); a
\* partial run, a STOP before travelTime has passed, and a finalization
\* with no last command leave it unknown.
C15_UnknownUntilFullRun ==
    [][position = -1 =>
         /\ position' \in FromUnknown
         /\ (StopStep /\ elapsed < travelTime * 100) => position' = -1]_vars

\* A finalization has found the position unknown and a full Up behind it,
\* and has set the position to 100.
C15_Witness ==
    \E t \in Threads :
        /\ loc[t].pc = "ret"
        /\ loc[t].was = -1
        /\ position = 100
        /\ travelTime > 0

\* C16: after each of any number of setShadePosition calls made one after
\* the other on the shade, each returning before the next starts, exactly
\* one Timer is pending, it is self.timer, and its interval and function
\* are those the last call computed from the position it found.
C16_OneTimerOfLastCall ==
    \A t \in Threads :
        Moved(t) =>
            LET m == ShadeMove(position, travelTime, loc[t].positionSP) IN
            /\ LiveTimers = {timer}
            /\ timer.left = m.timeSP
            /\ timer.fn = TimerFor(m.timeSP, m.nextCmd, loc[t].positionSP).fn
            /\ timer.arg = TimerFor(m.timeSP, m.nextCmd, loc[t].positionSP).arg

\* A setShadePosition call has returned that found the Timer of an earlier
\* call pending, and the Timer now pending is its own, armed to stop.
C16_Witness ==
    /\ Moved("cmd")
    /\ loc["cmd"].cancelled
    /\ travelTime > 0
    /\ timer.fn = "_stop"
    /\ timer.left > 0

OpenHandles == (IF ser = "open" THEN 1 ELSE 0) + strays

\* C17: while sends and connects run at the same time (commands and Timer
\* threads of different shades, longPoll's connect), at most one open
\* handle of the serial port exists in every state.
C17_OneOpenHandle == OpenHandles <= 1

Writing(g) == g.op = "_sendURTSCmd" /\ g.pc = "send_write"

\* C18: writes to the port are serialized: in no state are the sends of
\* two shades both at their write of the frame.
C18_WritesSerialized == ~(Writing(sloc) /\ Writing(peer))

\* disconnectSerial has just returned, to the DISCONNECT command or delete
\* (Direct) or to connectSerial or _sendURTSCmd after their failures.
DisconnectReturned ==
    sloc.pc \in {"disconnect_return", "connect_failed", "send_failed"}
DisconnectDone == sloc.pc = "ret" /\ sloc.op = "disconnectSerial"

\* C19 as stated: with a port configured disconnectSerial returns True in
\* every state, and leaves no open connection.
C19_DisconnectSucceeds ==
    /\ DisconnectReturned => (sloc.dres /\ ser # "open")
    /\ DisconnectDone => (sloc.ret = "True" /\ ser # "open")

\* C19: with a port configured disconnectSerial sets GV1 to 0 and returns
\* True exactly when there is a handle and close() did not raise, which
\* leaves the handle closed (closing a closed handle included); it returns
\* False when no handle was ever made, and when close() raised.
C19_DisconnectResult ==
    /\ DisconnectReturned => (gv1 = 0 /\ (sloc.dres <=> ser = "closed"))
    /\ DisconnectDone => (gv1 = 0 /\ (sloc.ret = "True" <=> ser = "closed"))

\* DISCONNECT has returned False before any open of the port returned a
\* handle.
C19_Witness ==
    /\ DisconnectDone
    /\ sloc.ret = "False"
    /\ ser = "none"
    /\ serialPort # "None"

\* GV1 is 1 exactly when self._ser is an open handle.
StatusMatchesHandle == gv1 = 1 <=> ser = "open"

\* This step is a close() of the open port that raises.
CloseRaises == sloc.pc = "disconnect" /\ ser = "open" /\ ser' = "open"

\* C20: GV1 is 1 exactly when self._ser is an open handle after start, and
\* every step of connectSerial, disconnectSerial and _sendURTSCmd keeps it
\* so, whatever opens and writes fail (a close() that raises is no such
\* failure), so that it is so at the return of every call; connectSerial on
\* an open connection returns True with GV1 1 and without an open.
C20_LinkStatus ==
    /\ StatusMatchesHandle
    /\ [][/\ (StatusMatchesHandle /\ ~CloseRaises) => StatusMatchesHandle'
          /\ (sloc.pc = "connect" /\ ser = "open") =>
                /\ sloc'.pc = sloc.connRet
                /\ sloc'.cres
                /\ sloc'.opens = 0
                /\ ser' = "open"
                /\ gv1' = 1]_vars

\* connectSerial has returned True on a connection that was open, without
\* an open of the port, and GV1 is 1.
C20_Witness ==
    /\ sloc.pc = "ret"
    /\ sloc.op = "connectSerial"
    /\ sloc.ret = "True"
    /\ sloc.opens = 0
    /\ ser = "open"
    /\ gv1 = 1

Known == position \in 0 .. 100

\* C21: a known position (0..100) is never unknown again: no DON, DOF, BRT,
\* DIM, STOP, SET_TRAVEL_TIME, QUERY, failed send, passing of time or run of
\* a Timer takes the position from 0..100 to -1 or out of 0..100.
C21_KnownStaysKnown == [][Known => Known']_vars

\* A setShadePosition whose send failed has returned, its _updatePosition
\* found the position known, and the position is known.
C21_Witness ==
    /\ Moved("cmd")
    /\ ~loc["cmd"].success
    /\ loc["cmd"].frames = <<>>
    /\ loc["cmd"].was \in 0 .. 100
    /\ Known

====
